---- MODULE Spec2Model ----
(***************************************************************************)
(* Model of the Discord queue bot (queue_bot.py).  The command handlers of *)
(* QueueBot are translated from the source.  The GameQueue / Player        *)
(* classes live in game_queue.py, which is imported by queue_bot.py but is *)
(* not part of the available sources; they are modelled from the           *)
(* specification of the Rotating Queue Engine (spec.md, sections 3 and 4). *)
(***************************************************************************)
EXTENDS Integers, Sequences, FiniteSets, TLC

VARIABLES queues,     \* QueueBot.queues: game name -> GameQueue (or no entry)
          game_dict,  \* QueueBot.game_dict: game name -> <<>> (no entry) or <<cutoff>>
          last,       \* the last command handled: its inputs, what it sent, what the engine returned
          tasks       \* command invocations running concurrently: parameters, handler position, response

vars == <<queues, game_dict, last, tasks>>

(***************************************************************************)
(* Bounds and input domains.                                               *)
(***************************************************************************)
HistoryDepth == 2                   \* depth of the bounded history stack

Games == {"g"}                      \* keys of queues / game_dict (always lowered)
GameArgs == {"", "G"}               \* game_name parameter as typed by the caller
Authors == {"Al", "Bo"}             \* ctx.message.author.name
PlayerArgs == {"al"}                \* player_to_add / player_to_remove / player_to_delay
CutoffArgs == {0, 1, 2}             \* player_cutoff parameter
StoredCutoffs == {<<>>, <<2>>}      \* contents of db/game_dict.json at start-up

(***************************************************************************)
(* str.lower() on the strings of the model.                                *)
(***************************************************************************)
Lower(s) ==
    CASE s = "Al" -> "al"
      [] s = "Bo" -> "bo"
      [] s = "Cy" -> "cy"
      [] s = "G"  -> "g"
      [] s = "H"  -> "h"
      [] OTHER    -> s

Min(a, b) == IF a < b THEN a ELSE b

(***************************************************************************)
(* Rotating Queue Engine (game_queue.py), modelled from the specification. *)
(***************************************************************************)
Player(name) == [name |-> name, delaying |-> FALSE]

NoGameQueue ==
    [exists |-> FALSE, player_cutoff |-> 0, players |-> <<>>,
     delaying |-> {}, history |-> <<>>]

GameQueue(player_cutoff, players) ==
    [exists |-> TRUE, player_cutoff |-> player_cutoff, players |-> players,
     delaying |-> {}, history |-> <<>>]

\* zero when absent, else the 1-based position of the first member whose
\* name equals name ignoring case
IndexOf(players, name) ==
    IF \E i \in 1..Len(players) : Lower(players[i].name) = Lower(name)
    THEN CHOOSE i \in 1..Len(players) :
            /\ Lower(players[i].name) = Lower(name)
            /\ \A j \in 1..(i-1) : Lower(players[j].name) # Lower(name)
    ELSE 0

RemoveAt(s, i) == SubSeq(s, 1, i-1) \o SubSeq(s, i+1, Len(s))

Drop(s, k) == IF k <= 0 THEN s ELSE SubSeq(s, k+1, Len(s))

Take(s, k) == IF k <= 0 THEN <<>> ELSE SubSeq(s, 1, Min(k, Len(s)))

Names(players) == [i \in 1..Len(players) |-> players[i].name]

\* history is a bounded stack: pushing on a full stack drops the oldest entry
PushHistory(history, snapshot) ==
    LET h == Append(history, snapshot)
    IN  IF Len(h) > HistoryDepth THEN Tail(h) ELSE h

Held(q, name) == {p \in q.delaying : Lower(p.name) = Lower(name)}

\* engine results: the new queue, a result tag, a wait estimate and a grouping
Result(q, tag) == [q |-> q, tag |-> tag, wait |-> -1, report |-> <<>>]

GQ_print_players(q) ==
    LET n == Names(q.players)
        c == q.player_cutoff
    IN  <<Take(n, c), Take(Drop(n, c), c), Drop(Drop(n, c), c)>>

Grouping(q) == [Result(q, "GroupReport") EXCEPT !.report = GQ_print_players(q)]

\* findParticipant: members first, then the delaying holding set
GQ_find_player(q, name) ==
    IF IndexOf(q.players, name) # 0 THEN <<q.players[IndexOf(q.players, name)]>>
    ELSE IF Held(q, name) # {} THEN <<CHOOSE p \in Held(q, name) : TRUE>>
    ELSE <<>>

GQ_add_player(q, p) ==
    IF IndexOf(q.players, p.name) # 0 THEN Result(q, "AlreadyPresent")
    ELSE Grouping([q EXCEPT !.history = PushHistory(@, q.players),
                            !.players = Append(@, [p EXCEPT !.delaying = FALSE])])

GQ_delete_player(q, p) ==
    IF IndexOf(q.players, p.name) = 0 THEN Result(q, "NotFound")
    ELSE Grouping([q EXCEPT !.history = PushHistory(@, q.players),
                            !.players = RemoveAt(@, IndexOf(q.players, p.name))])

GQ_update_queue(q) ==
    IF q.players = <<>> THEN Result(q, "EmptyQueue")
    ELSE Grouping([q EXCEPT !.history = PushHistory(@, q.players),
                            !.players = Drop(@, Min(q.player_cutoff, Len(q.players)))])

\* p is what find_player returned: <<>> or <<player>>
GQ_print_player_wait(q, p) ==
    IF p = <<>> \/ IndexOf(q.players, p[1].name) = 0 THEN Result(q, "NotFound")
    ELSE [Result(q, "WaitEstimate") EXCEPT
            !.wait = (IndexOf(q.players, p[1].name) - 1) \div q.player_cutoff]

GQ_delay_player(q, p) ==
    IF IndexOf(q.players, p.name) = 0 THEN Result(q, "NotFound")
    ELSE LET i == IndexOf(q.players, p.name)
         IN  Grouping([q EXCEPT !.history = PushHistory(@, q.players),
                                !.players = RemoveAt(@, i),
                                !.delaying = @ \cup {[q.players[i] EXCEPT !.delaying = TRUE]}])

GQ_rejoin_player(q, p) ==
    IF IndexOf(q.players, p.name) # 0 THEN Result(q, "NotDelaying")
    ELSE IF Held(q, p.name) = {} THEN Result(q, "NotFound")
    ELSE LET h == CHOOSE x \in Held(q, p.name) : TRUE
         IN  Grouping([q EXCEPT !.history = PushHistory(@, q.players),
                                !.delaying = @ \ {h},
                                !.players = Append(@, [h EXCEPT !.delaying = FALSE])])

GQ_undo_command(q) ==
    IF q.history = <<>> THEN Result(q, "NoHistory")
    ELSE Grouping([q EXCEPT !.players = q.history[Len(q.history)],
                            !.history = SubSeq(@, 1, Len(@) - 1)])

GQ_empty_queue(q) ==
    [q EXCEPT !.history = PushHistory(@, q.players),
              !.players = <<>>,
              !.delaying = {}]

(***************************************************************************)
(* QueueBot private helpers (queue_bot.py).                                *)
(***************************************************************************)
Keys(qs) == {g \in DOMAIN qs : qs[g].exists}

update_player_cutoff(gd, game_name, player_cutoff) ==
    [gd EXCEPT ![game_name] = <<player_cutoff>>]

check_and_lower_game_name_param(qs, game_name, player_name) ==
    IF game_name # "" THEN Lower(game_name)
    ELSE IF Cardinality(Keys(qs)) = 1 THEN Lower(CHOOSE k \in Keys(qs) : TRUE)
    ELSE LET player_queues == {k \in Keys(qs) : GQ_find_player(qs[k], player_name) # <<>>}
         IN  IF Cardinality(player_queues) = 1
             THEN CHOOSE k \in player_queues : TRUE
             ELSE ""

\* variant: a cutoff that differs from the stored one is not written to the store
check_player_cutoff_param_unsaved(gd, game_name, player_cutoff) ==
    IF gd[game_name] # <<>>
    THEN LET db_player_cutoff == gd[game_name][1]
             resolved == IF player_cutoff = 0 THEN db_player_cutoff ELSE player_cutoff
         IN  [game_dict |-> gd, player_cutoff |-> resolved]
    ELSE [game_dict |-> update_player_cutoff(gd, game_name, player_cutoff),
          player_cutoff |-> player_cutoff]

\* returns the (possibly updated) game_dict and the resolved player_cutoff
check_player_cutoff_param(gd, game_name, player_cutoff) ==
    IF gd[game_name] # <<>>
    THEN LET db_player_cutoff == gd[game_name][1]
             resolved == IF player_cutoff = 0 THEN db_player_cutoff ELSE player_cutoff
         IN  [game_dict |-> IF resolved # db_player_cutoff
                            THEN update_player_cutoff(gd, game_name, resolved)
                            ELSE gd,
              player_cutoff |-> resolved]
    ELSE [game_dict |-> update_player_cutoff(gd, game_name, player_cutoff),
          player_cutoff |-> player_cutoff]

\* variant: the emptiness clause is forgotten
check_if_queue_exists(qs, game_name) ==
    IF ~ qs[game_name].exists THEN FALSE
    ELSE TRUE

check_if_queue_exists_and_nonempty(qs, game_name) ==
    IF ~ qs[game_name].exists THEN FALSE
    ELSE IF qs[game_name].players = <<>> THEN FALSE
    ELSE TRUE

(***************************************************************************)
(* What a handler produces: the new registry and store, the game it        *)
(* resolved, the messages it sent, and the engine result it received.      *)
(***************************************************************************)
NoEngine == [tag |-> "", wait |-> -1, report |-> <<>>]

Out(qs, gd, game, sent, r) ==
    [queues |-> qs, game_dict |-> gd, game |-> game, sent |-> sent,
     engine |-> r.tag, wait |-> r.wait, report |-> r.report, raised |-> FALSE]

\* self.queues[name] on a missing key: KeyError leaves the handler, the
\* command framework reports it through on_command_error
KeyError(qs, gd, game) ==
    [queues |-> qs, game_dict |-> gd, game |-> game, sent |-> <<"command_invoke_error">>,
     engine |-> "", wait |-> -1, report |-> <<>>, raised |-> TRUE]

(***************************************************************************)
(* QueueBot command handlers (queue_bot.py).                               *)
(***************************************************************************)
\* variant: the join branch is missing, every call constructs a new queue
start_queue_always_create(qs, gd, author, game_name, player_cutoff) ==
    LET lower_game_name == check_and_lower_game_name_param(qs, game_name, "")
    IN  IF lower_game_name = ""
        THEN Out(qs, gd, "", <<"NO_GAME_PARAM_RESPONSE">>, NoEngine)
        ELSE LET c == check_player_cutoff_param(gd, lower_game_name, player_cutoff)
             IN  IF c.player_cutoff = 0
                 THEN Out(qs, c.game_dict, lower_game_name,
                          <<"NO_PLAYERCUTOFF_PARAM_RESPONSE">>, NoEngine)
                 ELSE LET r == GQ_add_player(GameQueue(c.player_cutoff, <<>>), Player(author))
                      IN  Out([qs EXCEPT ![lower_game_name] = r.q], c.game_dict,
                              lower_game_name, <<"created">>, r)

start_queue(qs, gd, author, game_name, player_cutoff) ==
    LET lower_game_name == check_and_lower_game_name_param(qs, game_name, "")
    IN  IF lower_game_name = ""
        THEN Out(qs, gd, "", <<"NO_GAME_PARAM_RESPONSE">>, NoEngine)
        ELSE IF check_if_queue_exists_and_nonempty(qs, lower_game_name)
        THEN LET r == GQ_add_player(qs[lower_game_name], Player(author))
             IN  Out([qs EXCEPT ![lower_game_name] = r.q], gd, lower_game_name,
                     <<"engine">>, r)
        ELSE LET c == check_player_cutoff_param(gd, lower_game_name, player_cutoff)
             IN  IF c.player_cutoff = 0
                 THEN Out(qs, c.game_dict, lower_game_name,
                          <<"NO_PLAYERCUTOFF_PARAM_RESPONSE">>, NoEngine)
                 ELSE LET r == GQ_add_player(GameQueue(c.player_cutoff, <<>>), Player(author))
                      IN  Out([qs EXCEPT ![lower_game_name] = r.q], c.game_dict,
                              lower_game_name, <<"created">>, r)

\* variant: the first player of the queue is deleted instead of the caller
leave_queue_first(qs, gd, author, game_name) ==
    LET lower_game_name == check_and_lower_game_name_param(qs, game_name, author)
    IN  IF lower_game_name = ""
        THEN Out(qs, gd, "", <<"NO_GAME_PARAM_RESPONSE">>, NoEngine)
        ELSE IF ~ qs[lower_game_name].exists
        THEN KeyError(qs, gd, lower_game_name)
        ELSE IF GQ_find_player(qs[lower_game_name], author) # <<>>
        THEN LET player == IF qs[lower_game_name].players # <<>>
                           THEN qs[lower_game_name].players[1]
                           ELSE GQ_find_player(qs[lower_game_name], author)[1]
                 r == GQ_delete_player(qs[lower_game_name], player)
             IN  Out([qs EXCEPT ![lower_game_name] = r.q], gd, lower_game_name,
                     <<"engine">>, r)
        ELSE Out(qs, gd, lower_game_name, <<"not_a_member">>, NoEngine)

leave_queue(qs, gd, author, game_name) ==
    LET lower_game_name == check_and_lower_game_name_param(qs, game_name, author)
    IN  IF lower_game_name = ""
        THEN Out(qs, gd, "", <<"NO_GAME_PARAM_RESPONSE">>, NoEngine)
        ELSE IF ~ qs[lower_game_name].exists
        THEN KeyError(qs, gd, lower_game_name)
        ELSE IF GQ_find_player(qs[lower_game_name], author) # <<>>
        THEN LET player == GQ_find_player(qs[lower_game_name], author)[1]
                 r == GQ_delete_player(qs[lower_game_name], player)
             IN  Out([qs EXCEPT ![lower_game_name] = r.q], gd, lower_game_name,
                     <<"engine">>, r)
        ELSE Out(qs, gd, lower_game_name, <<"not_a_member">>, NoEngine)

next_game_for_queue(qs, gd, author, game_name) ==
    LET lower_game_name == check_and_lower_game_name_param(qs, game_name, author)
    IN  IF lower_game_name = ""
        THEN Out(qs, gd, "", <<"NO_GAME_PARAM_RESPONSE">>, NoEngine)
        ELSE IF ~ check_if_queue_exists_and_nonempty(qs, lower_game_name)
        THEN Out(qs, gd, lower_game_name, <<"NO_QUEUE_RESPONSE">>, NoEngine)
        ELSE LET r == GQ_update_queue(qs[lower_game_name])
             IN  Out([qs EXCEPT ![lower_game_name] = r.q], gd, lower_game_name,
                     <<"engine">>, r)

\* variant: update_queue is called where print_players is meant
status_queue_rotates(qs, gd, author, game_name) ==
    LET lower_game_name == check_and_lower_game_name_param(qs, game_name, author)
    IN  IF lower_game_name = ""
        THEN Out(qs, gd, "", <<"NO_GAME_PARAM_RESPONSE">>, NoEngine)
        ELSE IF ~ check_if_queue_exists_and_nonempty(qs, lower_game_name)
        THEN Out(qs, gd, lower_game_name, <<"NO_QUEUE_RESPONSE">>, NoEngine)
        ELSE LET r == GQ_update_queue(qs[lower_game_name])
             IN  Out([qs EXCEPT ![lower_game_name] = r.q], gd, lower_game_name,
                     <<"engine">>, r)

status_queue(qs, gd, author, game_name) ==
    LET lower_game_name == check_and_lower_game_name_param(qs, game_name, author)
    IN  IF lower_game_name = ""
        THEN Out(qs, gd, "", <<"NO_GAME_PARAM_RESPONSE">>, NoEngine)
        ELSE IF ~ check_if_queue_exists_and_nonempty(qs, lower_game_name)
        THEN Out(qs, gd, lower_game_name, <<"NO_QUEUE_RESPONSE">>, NoEngine)
        ELSE Out(qs, gd, lower_game_name, <<"engine">>, Grouping(qs[lower_game_name]))

\* variant: delete_player is called where print_player_wait is meant
wait_queue_leaves(qs, gd, author, game_name) ==
    LET lower_game_name == check_and_lower_game_name_param(qs, game_name, author)
    IN  IF lower_game_name = ""
        THEN Out(qs, gd, "", <<"NO_GAME_PARAM_RESPONSE">>, NoEngine)
        ELSE IF ~ check_if_queue_exists_and_nonempty(qs, lower_game_name)
        THEN Out(qs, gd, lower_game_name, <<"NO_QUEUE_RESPONSE">>, NoEngine)
        ELSE LET player == GQ_find_player(qs[lower_game_name], author)
             IN  IF player = <<>>
                 THEN Out(qs, gd, lower_game_name, <<"engine">>,
                          Result(qs[lower_game_name], "NotFound"))
                 ELSE LET r == GQ_delete_player(qs[lower_game_name], player[1])
                      IN  Out([qs EXCEPT ![lower_game_name] = r.q], gd, lower_game_name,
                              <<"engine">>, r)

\* variant: the exists-and-nonempty check is missing
wait_queue_unchecked(qs, gd, author, game_name) ==
    LET lower_game_name == check_and_lower_game_name_param(qs, game_name, author)
    IN  IF lower_game_name = ""
        THEN Out(qs, gd, "", <<"NO_GAME_PARAM_RESPONSE">>, NoEngine)
        ELSE IF ~ qs[lower_game_name].exists
        THEN KeyError(qs, gd, lower_game_name)
        ELSE LET player == GQ_find_player(qs[lower_game_name], author)
             IN  Out(qs, gd, lower_game_name, <<"engine">>,
                     GQ_print_player_wait(qs[lower_game_name], player))

wait_queue(qs, gd, author, game_name) ==
    LET lower_game_name == check_and_lower_game_name_param(qs, game_name, author)
    IN  IF lower_game_name = ""
        THEN Out(qs, gd, "", <<"NO_GAME_PARAM_RESPONSE">>, NoEngine)
        ELSE IF ~ check_if_queue_exists_and_nonempty(qs, lower_game_name)
        THEN Out(qs, gd, lower_game_name, <<"NO_QUEUE_RESPONSE">>, NoEngine)
        ELSE LET player == GQ_find_player(qs[lower_game_name], author)
             IN  Out(qs, gd, lower_game_name, <<"engine">>,
                     GQ_print_player_wait(qs[lower_game_name], player))

\* the usage message is sent first when the player name is empty; the handler
\* does not return after sending it
Usage(player_name) == IF player_name = "" THEN <<"usage">> ELSE <<>>

\* variant: the author is added instead of the named player
add_player_author(qs, gd, author, player_to_add, game_name) ==
    LET lower_game_name == check_and_lower_game_name_param(qs, game_name, author)
        usage == Usage(player_to_add)
    IN  IF lower_game_name = ""
        THEN Out(qs, gd, "", usage \o <<"NO_GAME_PARAM_RESPONSE">>, NoEngine)
        ELSE IF ~ check_if_queue_exists_and_nonempty(qs, lower_game_name)
        THEN Out(qs, gd, lower_game_name, usage \o <<"NO_QUEUE_RESPONSE">>, NoEngine)
        ELSE IF GQ_find_player(qs[lower_game_name], player_to_add) # <<>>
        THEN Out(qs, gd, lower_game_name, usage \o <<"already_a_member">>, NoEngine)
        ELSE LET r == GQ_add_player(qs[lower_game_name], Player(author))
             IN  Out([qs EXCEPT ![lower_game_name] = r.q], gd, lower_game_name,
                     usage \o <<"engine">>, r)

add_player(qs, gd, author, player_to_add, game_name) ==
    LET lower_game_name == check_and_lower_game_name_param(qs, game_name, author)
        usage == Usage(player_to_add)
    IN  IF lower_game_name = ""
        THEN Out(qs, gd, "", usage \o <<"NO_GAME_PARAM_RESPONSE">>, NoEngine)
        ELSE IF ~ check_if_queue_exists_and_nonempty(qs, lower_game_name)
        THEN Out(qs, gd, lower_game_name, usage \o <<"NO_QUEUE_RESPONSE">>, NoEngine)
        ELSE IF GQ_find_player(qs[lower_game_name], player_to_add) # <<>>
        THEN Out(qs, gd, lower_game_name, usage \o <<"already_a_member">>, NoEngine)
        ELSE LET r == GQ_add_player(qs[lower_game_name], Player(player_to_add))
             IN  Out([qs EXCEPT ![lower_game_name] = r.q], gd, lower_game_name,
                     usage \o <<"engine">>, r)

kick_player(qs, gd, author, player_to_remove, game_name) ==
    LET lower_game_name == check_and_lower_game_name_param(qs, game_name, author)
        usage == Usage(player_to_remove)
    IN  IF lower_game_name = ""
        THEN Out(qs, gd, "", usage \o <<"NO_GAME_PARAM_RESPONSE">>, NoEngine)
        ELSE IF ~ check_if_queue_exists_and_nonempty(qs, lower_game_name)
        THEN Out(qs, gd, lower_game_name, usage \o <<"NO_QUEUE_RESPONSE">>, NoEngine)
        ELSE LET player == GQ_find_player(qs[lower_game_name], player_to_remove)
             IN  IF player # <<>>
                 THEN LET r == GQ_delete_player(qs[lower_game_name], player[1])
                      IN  Out([qs EXCEPT ![lower_game_name] = r.q], gd, lower_game_name,
                              usage \o <<"engine">>, r)
                 ELSE Out(qs, gd, lower_game_name, usage \o <<"not_a_member">>, NoEngine)

\* player_to_delay is already resolved: the author when the parameter is empty
delay_player(qs, gd, game_name, player_to_delay) ==
    LET lower_game_name == check_and_lower_game_name_param(qs, game_name, player_to_delay)
    IN  IF lower_game_name = ""
        THEN Out(qs, gd, "", <<"NO_GAME_PARAM_RESPONSE">>, NoEngine)
        ELSE IF ~ check_if_queue_exists_and_nonempty(qs, lower_game_name)
        THEN Out(qs, gd, lower_game_name, <<"NO_QUEUE_RESPONSE">>, NoEngine)
        ELSE LET player == GQ_find_player(qs[lower_game_name], player_to_delay)
             IN  IF player # <<>>
                 THEN LET r == GQ_delay_player(qs[lower_game_name], player[1])
                      IN  Out([qs EXCEPT ![lower_game_name] = r.q], gd, lower_game_name,
                              <<"now_delaying">>, r)
                 ELSE Out(qs, gd, lower_game_name, <<"not_a_player">>, NoEngine)

rejoin_player(qs, gd, author, game_name) ==
    LET lower_game_name == check_and_lower_game_name_param(qs, game_name, author)
    IN  IF lower_game_name = ""
        THEN Out(qs, gd, "", <<"NO_GAME_PARAM_RESPONSE">>, NoEngine)
        ELSE IF ~ check_if_queue_exists_and_nonempty(qs, lower_game_name)
        THEN Out(qs, gd, lower_game_name, <<"NO_QUEUE_RESPONSE">>, NoEngine)
        ELSE LET player == GQ_find_player(qs[lower_game_name], author)
             IN  IF player # <<>> /\ player[1].delaying
                 THEN LET r == GQ_rejoin_player(qs[lower_game_name], player[1])
                      IN  Out([qs EXCEPT ![lower_game_name] = r.q], gd, lower_game_name,
                              <<"no_longer_delaying">>, r)
                 ELSE IF player # <<>> /\ ~ player[1].delaying
                 THEN Out(qs, gd, lower_game_name, <<"was_not_delaying">>, NoEngine)
                 ELSE Out(qs, gd, lower_game_name, <<"not_a_player">>, NoEngine)

undo_queue(qs, gd, author, game_name) ==
    LET lower_game_name == check_and_lower_game_name_param(qs, game_name, author)
    IN  IF lower_game_name = ""
        THEN Out(qs, gd, "", <<"NO_GAME_PARAM_RESPONSE">>, NoEngine)
        ELSE IF ~ check_if_queue_exists_and_nonempty(qs, lower_game_name)
        THEN Out(qs, gd, lower_game_name, <<"NO_QUEUE_RESPONSE">>, NoEngine)
        ELSE LET r == GQ_undo_command(qs[lower_game_name])
             IN  Out([qs EXCEPT ![lower_game_name] = r.q], gd, lower_game_name,
                     <<"undone">>, r)

\* variant: the moved players are appended to the players the target queue
\* already has instead of replacing them
switch_queue_merge(qs, gd, author, game_name, player_cutoff) ==
    LET current_game_name == check_and_lower_game_name_param(qs, "", author)
        lower_game_name == Lower(game_name)
    IN  IF lower_game_name = ""
        THEN Out(qs, gd, "", <<"NO_GAME_PARAM_RESPONSE">>, NoEngine)
        ELSE IF current_game_name = ""
        THEN Out(qs, gd, lower_game_name, <<"not_in_a_queue">>, NoEngine)
        ELSE LET c == check_player_cutoff_param(gd, lower_game_name, player_cutoff)
             IN  IF c.player_cutoff = 0
                 THEN Out(qs, c.game_dict, lower_game_name,
                          <<"NO_PLAYERCUTOFF_PARAM_RESPONSE">>, NoEngine)
                 ELSE LET players_to_move == qs[current_game_name].players
                          emptied == [qs EXCEPT ![current_game_name] = GQ_empty_queue(@)]
                      IN  Out([emptied EXCEPT ![lower_game_name] =
                                    GameQueue(c.player_cutoff,
                                              qs[lower_game_name].players \o players_to_move)],
                              c.game_dict, lower_game_name, <<"created">>, NoEngine)

\* variant: the current queue is not emptied after its players are copied
switch_queue_copy(qs, gd, author, game_name, player_cutoff) ==
    LET current_game_name == check_and_lower_game_name_param(qs, "", author)
        lower_game_name == Lower(game_name)
    IN  IF lower_game_name = ""
        THEN Out(qs, gd, "", <<"NO_GAME_PARAM_RESPONSE">>, NoEngine)
        ELSE IF current_game_name = ""
        THEN Out(qs, gd, lower_game_name, <<"not_in_a_queue">>, NoEngine)
        ELSE LET c == check_player_cutoff_param(gd, lower_game_name, player_cutoff)
             IN  IF c.player_cutoff = 0
                 THEN Out(qs, c.game_dict, lower_game_name,
                          <<"NO_PLAYERCUTOFF_PARAM_RESPONSE">>, NoEngine)
                 ELSE LET players_to_move == qs[current_game_name].players
                      IN  Out([qs EXCEPT ![lower_game_name] =
                                    GameQueue(c.player_cutoff, players_to_move)],
                              c.game_dict, lower_game_name, <<"created">>, NoEngine)

switch_queue(qs, gd, author, game_name, player_cutoff) ==
    LET current_game_name == check_and_lower_game_name_param(qs, "", author)
        lower_game_name == Lower(game_name)
    IN  IF lower_game_name = ""
        THEN Out(qs, gd, "", <<"NO_GAME_PARAM_RESPONSE">>, NoEngine)
        ELSE IF current_game_name = ""
        THEN Out(qs, gd, lower_game_name, <<"not_in_a_queue">>, NoEngine)
        ELSE LET c == check_player_cutoff_param(gd, lower_game_name, player_cutoff)
             IN  IF c.player_cutoff = 0
                 THEN Out(qs, c.game_dict, lower_game_name,
                          <<"NO_PLAYERCUTOFF_PARAM_RESPONSE">>, NoEngine)
                 ELSE LET players_to_move == qs[current_game_name].players
                          emptied == [qs EXCEPT ![current_game_name] = GQ_empty_queue(@)]
                      IN  Out([emptied EXCEPT ![lower_game_name] =
                                    GameQueue(c.player_cutoff, players_to_move)],
                              c.game_dict, lower_game_name, <<"created">>, NoEngine)

\* variant: the queue is ended by replacing it with a new, empty queue
end_queue_discard(qs, gd, author, game_name) ==
    LET lower_game_name == check_and_lower_game_name_param(qs, game_name, author)
    IN  IF lower_game_name = ""
        THEN Out(qs, gd, "", <<"NO_GAME_PARAM_RESPONSE">>, NoEngine)
        ELSE IF ~ qs[lower_game_name].exists
        THEN KeyError(qs, gd, lower_game_name)
        ELSE Out([qs EXCEPT ![lower_game_name] = GameQueue(@.player_cutoff, <<>>)], gd,
                 lower_game_name, <<"ended">>, NoEngine)

end_queue(qs, gd, author, game_name) ==
    LET lower_game_name == check_and_lower_game_name_param(qs, game_name, author)
    IN  IF lower_game_name = ""
        THEN Out(qs, gd, "", <<"NO_GAME_PARAM_RESPONSE">>, NoEngine)
        ELSE IF ~ qs[lower_game_name].exists
        THEN KeyError(qs, gd, lower_game_name)
        ELSE Out([qs EXCEPT ![lower_game_name] = GQ_empty_queue(@)], gd,
                 lower_game_name, <<"ended">>, NoEngine)

(***************************************************************************)
(* The state machine: one action per command registered by                 *)
(* add_commands_to_bot.  A handler runs without suspension up to its final *)
(* ctx.send, so each command is one atomic step.                           *)
(***************************************************************************)
Members(g) == queues[g].players

Answered(cmd, author, player, out) ==
    /\ queues' = out.queues
    /\ game_dict' = out.game_dict
    /\ last' = [cmd |-> cmd, author |-> author, player |-> player,
                game |-> out.game, sent |-> out.sent, engine |-> out.engine,
                wait |-> out.wait, report |-> out.report, raised |-> out.raised,
                pre |-> IF out.game = "" THEN <<>> ELSE Members(out.game)]

\* a command handled while no other invocation is in flight
Handled(cmd, author, player, out) ==
    /\ Answered(cmd, author, player, out)
    /\ UNCHANGED tasks

InitOver(games, stored) ==
    /\ queues = [g \in games |-> NoGameQueue]
    /\ game_dict \in [games -> stored]
    /\ last = [cmd |-> "init", author |-> "", player |-> "", game |-> "",
               sent |-> <<>>, engine |-> "", wait |-> -1, report |-> <<>>,
               raised |-> FALSE, pre |-> <<>>]
    /\ tasks = <<>>

Cmd_queue(authors, game_args, cutoff_args) ==
    \E author \in authors, game_name \in game_args, player_cutoff \in cutoff_args :
        Handled("queue", author, author,
                start_queue(queues, game_dict, author, game_name, player_cutoff))

Cmd_leave(authors, game_args) ==
    \E author \in authors, game_name \in game_args :
        Handled("leave", author, author, leave_queue(queues, game_dict, author, game_name))

Cmd_next(authors, game_args) ==
    \E author \in authors, game_name \in game_args :
        Handled("next", author, "", next_game_for_queue(queues, game_dict, author, game_name))

Cmd_status(authors, game_args) ==
    \E author \in authors, game_name \in game_args :
        Handled("status", author, "", status_queue(queues, game_dict, author, game_name))

Cmd_wait(authors, game_args) ==
    \E author \in authors, game_name \in game_args :
        Handled("wait", author, author, wait_queue(queues, game_dict, author, game_name))

Cmd_add(authors, player_args, game_args) ==
    \E author \in authors, player_to_add \in player_args, game_name \in game_args :
        Handled("add", author, player_to_add,
                add_player(queues, game_dict, author, player_to_add, game_name))

Cmd_kick(authors, player_args, game_args) ==
    \E author \in authors, player_to_remove \in player_args, game_name \in game_args :
        Handled("kick", author, player_to_remove,
                kick_player(queues, game_dict, author, player_to_remove, game_name))

\* the player_to_delay parameter defaults to the empty string, which the
\* handler replaces by the author's name
Cmd_delay(authors, player_args, game_args) ==
    \E author \in authors, player_arg \in player_args \cup {""}, game_name \in game_args :
        LET player_to_delay == IF player_arg = "" THEN author ELSE player_arg
        IN  Handled("delay", author, player_to_delay,
                    delay_player(queues, game_dict, game_name, player_to_delay))

Cmd_rejoin(authors, game_args) ==
    \E author \in authors, game_name \in game_args :
        Handled("rejoin", author, author, rejoin_player(queues, game_dict, author, game_name))

Cmd_undo(authors, game_args) ==
    \E author \in authors, game_name \in game_args :
        Handled("undo", author, "", undo_queue(queues, game_dict, author, game_name))

Cmd_game(authors, game_args, cutoff_args) ==
    \E author \in authors, game_name \in game_args, player_cutoff \in cutoff_args :
        Handled("game", author, "",
                switch_queue(queues, game_dict, author, game_name, player_cutoff))

Cmd_end(authors, game_args) ==
    \E author \in authors, game_name \in game_args :
        Handled("end", author, "", end_queue(queues, game_dict, author, game_name))

Init == InitOver(Games, StoredCutoffs)

Next ==
    \/ Cmd_queue(Authors, GameArgs, CutoffArgs)
    \/ Cmd_leave(Authors, GameArgs)
    \/ Cmd_next(Authors, GameArgs)
    \/ Cmd_status(Authors, GameArgs)
    \/ Cmd_wait(Authors, GameArgs)
    \/ Cmd_add(Authors, PlayerArgs, GameArgs)
    \/ Cmd_kick(Authors, PlayerArgs, GameArgs)
    \/ Cmd_delay(Authors, PlayerArgs, GameArgs)
    \/ Cmd_rejoin(Authors, GameArgs)
    \/ Cmd_undo(Authors, GameArgs)
    \/ Cmd_game(Authors, GameArgs, CutoffArgs)
    \/ Cmd_end(Authors, GameArgs)

Spec == Init /\ [][Next]_vars

(***************************************************************************)
(* Three callers joining, leaving, rotating and querying one queue: the    *)
(* queue can hold three members, so that all three cohorts of a report can *)
(* be non-empty.                                                           *)
(***************************************************************************)
ThreeAuthors == {"Al", "Bo", "Cy"}

NextThree ==
    \/ Cmd_queue(ThreeAuthors, GameArgs, CutoffArgs)
    \/ Cmd_leave(ThreeAuthors, GameArgs)
    \/ Cmd_next(ThreeAuthors, GameArgs)
    \/ Cmd_status(ThreeAuthors, GameArgs)
    \/ Cmd_wait(ThreeAuthors, GameArgs)
    \/ Cmd_kick(ThreeAuthors, PlayerArgs, GameArgs)

SpecThree == Init /\ [][NextThree]_vars

(***************************************************************************)
(* Callers passing any integer as player_cutoff, on a store that may hold  *)
(* any integer: only the commands that resolve a cutoff or empty a queue.  *)
(***************************************************************************)
SignedCutoffArgs == {-1, 0, 1}

SignedStoredCutoffs == {<<>>, <<-1>>, <<0>>, <<2>>}

InitCutoff == InitOver(Games, SignedStoredCutoffs)

NextCutoff ==
    \/ Cmd_queue(Authors, GameArgs, SignedCutoffArgs)
    \/ Cmd_leave(Authors, GameArgs)
    \/ Cmd_game(Authors, GameArgs, SignedCutoffArgs)
    \/ Cmd_end(Authors, GameArgs)

SpecCutoff == InitCutoff /\ [][NextCutoff]_vars

(***************************************************************************)
(* Two games: callers join either queue and switch between them.           *)
(***************************************************************************)
TwoGames == {"g", "h"}

TwoGameArgs == {"G", "H"}

SwitchCutoffArgs == {0, 1}

InitSwitch == InitOver(TwoGames, {<<>>})

NextSwitch ==
    \/ Cmd_queue(Authors, TwoGameArgs, SwitchCutoffArgs)
    \/ Cmd_add(Authors, PlayerArgs, TwoGameArgs)
    \/ Cmd_game(Authors, TwoGameArgs, SwitchCutoffArgs)
    \/ Cmd_end(Authors, {""} \cup TwoGameArgs)

SpecSwitch == InitSwitch /\ [][NextSwitch]_vars

(***************************************************************************)
(* Two commands running concurrently.  Each invocation is a task on the    *)
(* bot's event loop: a handler runs until it awaits ctx.send, other        *)
(* handlers run while it is suspended there.  add and kick await a usage   *)
(* message first when the player name is missing, and go on afterwards;    *)
(* every handler awaits its response last.                                 *)
(***************************************************************************)
Callers == {1, 2}

Invocation(cmd, author, player, game_name, player_cutoff) ==
    [cmd |-> cmd, author |-> author, player |-> player, game_name |-> game_name,
     player_cutoff |-> player_cutoff]

RaceInvocations ==
    {Invocation("queue", a, a, "G", c) : a \in Authors, c \in {0, 1}}
    \cup {Invocation("add", "Al", p, "G", 0) : p \in {"", "bo"}}
    \cup {Invocation("kick", "Bo", p, "G", 0) : p \in {"", "al"}}
    \cup {Invocation("game", "Al", "", "G", 2)}

\* the task of an invocation received when the registry and the store were seen
Task(inv, seen) ==
    [cmd |-> inv.cmd, author |-> inv.author, player |-> inv.player,
     game_name |-> inv.game_name, player_cutoff |-> inv.player_cutoff,
     seen |-> seen, stage |-> "invoked", sent |-> <<>>]

\* variant: a handler works on the registry and store as they were when its
\* command was received
RegistryAtReceipt(current, seen) == seen

\* self.queues and self.game_dict as a handler body reads and writes them:
\* the attributes of the one bot object, at the time the body runs
Registry(current, seen) == current

AwaitsUsage(t) == t.cmd \in {"add", "kick"} /\ t.player = ""

Body(t, qs, gd) ==
    CASE t.cmd = "queue" -> start_queue(qs, gd, t.author, t.game_name, t.player_cutoff)
      [] t.cmd = "add"   -> add_player(qs, gd, t.author, t.player, t.game_name)
      [] t.cmd = "kick"  -> kick_player(qs, gd, t.author, t.player, t.game_name)
      [] t.cmd = "game"  -> switch_queue(qs, gd, t.author, t.game_name, t.player_cutoff)

Receive ==
    /\ tasks = <<>>
    /\ \E f \in [Callers -> RaceInvocations] :
          tasks' = [i \in Callers |->
                       Task(f[i], [queues |-> queues, game_dict |-> game_dict])]
    /\ UNCHANGED <<queues, game_dict, last>>

\* the handler starts and suspends at the await of its usage message
SendUsage(i) ==
    /\ tasks # <<>>
    /\ tasks[i].stage = "invoked"
    /\ AwaitsUsage(tasks[i])
    /\ tasks' = [tasks EXCEPT ![i].stage = "usage"]
    /\ UNCHANGED <<queues, game_dict, last>>

\* the handler runs from its start, or from the usage await, up to the
\* await of its response
Run(i) ==
    /\ tasks # <<>>
    /\ \/ tasks[i].stage = "invoked" /\ ~ AwaitsUsage(tasks[i])
       \/ tasks[i].stage = "usage"
    /\ LET r == Registry([queues |-> queues, game_dict |-> game_dict], tasks[i].seen)
           out == Body(tasks[i], r.queues, r.game_dict)
       IN  /\ Answered(tasks[i].cmd, tasks[i].author, tasks[i].player, out)
           /\ tasks' = [tasks EXCEPT ![i].stage = "sending", ![i].sent = out.sent]

\* the response has been sent, the handler returns
Sent(i) ==
    /\ tasks # <<>>
    /\ tasks[i].stage = "sending"
    /\ tasks' = [tasks EXCEPT ![i].stage = "done"]
    /\ UNCHANGED <<queues, game_dict, last>>

NextRace ==
    \/ tasks = <<>> /\ Cmd_queue(Authors, {"G"}, {0, 1})
    \/ tasks = <<>> /\ Cmd_leave(Authors, {"G"})
    \/ Receive
    \/ \E i \in Callers : SendUsage(i)
    \/ \E i \in Callers : Run(i)
    \/ \E i \in Callers : Sent(i)

SpecRace == Init /\ [][NextRace]_vars

(***************************************************************************)
(* add and kick called with or without a player name.                      *)
(***************************************************************************)
OptionalPlayerArgs == {"", "al"}

NextUsage ==
    \/ Cmd_queue(Authors, {"G"}, {1})
    \/ Cmd_leave(Authors, GameArgs)
    \/ Cmd_add(Authors, OptionalPlayerArgs, GameArgs)
    \/ Cmd_kick(Authors, OptionalPlayerArgs, GameArgs)

SpecUsage == Init /\ [][NextUsage]_vars

(***************************************************************************)
(* Properties.                                                             *)
(***************************************************************************)
SameName(a, b) == Lower(a) = Lower(b)

IsMember(q, name) == \E i \in 1..Len(q.players) : SameName(q.players[i].name, name)

IsHeld(q, name) == \E p \in q.delaying : SameName(p.name, name)

\* the command added to an existing queue (the add command, or queue/join on
\* a queue that has members)
AddedTo(l) == l.cmd = "add" \/ (l.cmd = "queue" /\ l.sent = <<"engine">>)

\* the command ran a mutating engine operation on an existing queue and it succeeded
Succeeded(l) ==
    \/ AddedTo(l) /\ l.engine = "GroupReport"
    \/ l.cmd \in {"leave", "kick", "next", "delay", "rejoin"} /\ l.engine = "GroupReport"
    \/ l.cmd = "end" /\ l.sent = <<"ended">>

\* C1: in every reachable state no two members of a queue have the same
\* name when names are compared ignoring case.
NoDuplicateMembers ==
    \A g \in DOMAIN queues :
        \A i, j \in 1..Len(queues[g].players) :
            i # j => ~ SameName(queues[g].players[i].name, queues[g].players[j].name)

\* a switch has rebuilt a queue with two members
NoDuplicateMembersWitness ==
    /\ last.cmd = "game"
    /\ last.sent = <<"created">>
    /\ Len(queues[last.game].players) = 2

\* C2: adding a name that equals, ignoring case, the name of a member is
\* answered with the already-present indication and leaves the queue
\* (members, holding set, history) as it was.
AddPresentChangesNothing ==
    [][(/\ last'.cmd \in {"add", "queue"}
        /\ last'.game # ""
        /\ IsMember(queues[last'.game], last'.player))
       => /\ queues' = queues
          /\ IF last'.cmd = "add"
             THEN last'.sent = <<"already_a_member">>
             ELSE last'.engine = "AlreadyPresent"]_vars

\* "al" was refused because "Al" is a member
AddPresentWitness ==
    /\ last.cmd = "add"
    /\ last.player = "al"
    /\ last.sent = <<"already_a_member">>
    /\ \E i \in 1..Len(queues[last.game].players) : queues[last.game].players[i].name = "Al"
    /\ queues[last.game].history # <<>>

RotateRemovesCurrentCohort ==
    [][last'.cmd = "next"
       => IF last'.game # "" /\ queues[last'.game].players # <<>>
          THEN LET m == queues[last'.game].players
                   k == Min(queues[last'.game].player_cutoff, Len(m))
               IN  /\ last'.engine = "GroupReport"
                   /\ k >= 1
                   /\ queues'[last'.game].players = SubSeq(m, k + 1, Len(m))
                   /\ Len(queues'[last'.game].players) = Len(m) - k
          ELSE /\ queues' = queues
               /\ game_dict' = game_dict
               /\ last'.game # "" => last'.sent = <<"NO_QUEUE_RESPONSE">>]_vars

\* a rotation with cohort size 1 retired one of two members
RotateWitness ==
    /\ last.cmd = "next"
    /\ last.engine = "GroupReport"
    /\ Len(last.pre) = 2
    /\ queues[last.game].player_cutoff = 1
    /\ queues[last.game].players = <<last.pre[2]>>

\* C5: a successful add, remove, rotate, delay or rejoin followed immediately
\* by the undo command restores members to the sequence before the operation.
OpThenUndoRestores ==
    [][(/\ last.cmd \in {"add", "queue", "leave", "kick", "next", "delay", "rejoin"}
        /\ last.engine = "GroupReport"
        /\ last'.cmd = "undo"
        /\ last'.game = last.game)
       => queues'[last.game].players = last.pre]_vars

\* C6: an undo issued right after the end command emptied a queue that had
\* members restores the members the queue had before it was emptied.
EndThenUndoRestores ==
    [][(/\ last.cmd = "end"
        /\ last.sent = <<"ended">>
        /\ last.pre # <<>>
        /\ last'.cmd = "undo"
        /\ last'.game = last.game)
       => queues'[last.game].players = last.pre]_vars

\* C7: undo on a queue whose history is empty signals NoHistory and leaves
\* the queue unchanged (so the second of two undos after one add signals
\* NoHistory).
UndoWithoutHistorySignalsNoHistory ==
    [][(/\ last'.cmd = "undo"
        /\ last'.game # ""
        /\ queues[last'.game].exists
        /\ queues[last'.game].history = <<>>)
       => /\ last'.engine = "NoHistory"
          /\ queues' = queues]_vars

\* C8: remove, delay or rejoin for a name that is neither a member nor held,
\* and rejoin for a member, change nothing and are answered with the
\* not-found / not-delaying indication; a mutating operation that succeeds
\* pushes exactly one snapshot, the members sequence before the operation.
AllOrNothing ==
    [][LET l == last'
           g == last'.game
       IN  /\ (/\ l.cmd \in {"leave", "kick", "delay", "rejoin"}
               /\ g # ""
               /\ ~ IsMember(queues[g], l.player)
               /\ ~ IsHeld(queues[g], l.player))
              => /\ queues' = queues
                 /\ queues[g].players # <<>>
                    => l.sent \in {<<"not_a_member">>, <<"not_a_player">>}
           /\ (l.cmd = "rejoin" /\ g # "" /\ IsMember(queues[g], l.player))
              => /\ queues' = queues
                 /\ l.sent = <<"was_not_delaying">>
           /\ Succeeded(l)
              => LET h == queues[g].history
                     kept == IF Len(h) < HistoryDepth THEN h ELSE Tail(h)
                 IN  queues'[g].history = kept \o <<queues[g].players>>]_vars

\* a member who is not delaying asked to rejoin a queue that has a history
AllOrNothingWitness ==
    /\ last.cmd = "rejoin"
    /\ last.sent = <<"was_not_delaying">>
    /\ IsMember(queues[last.game], last.player)
    /\ Len(queues[last.game].history) = HistoryDepth

\* C9: delay(name) followed immediately by rejoin(name) leaves the number of
\* members unchanged and the participant last in members, not delaying and
\* no longer held.
DelayThenRejoinKeepsLength ==
    [][(/\ last.cmd = "delay"
        /\ last.engine = "GroupReport"
        /\ last'.cmd = "rejoin"
        /\ last'.game = last.game
        /\ SameName(last'.player, last.player))
       => LET m == queues'[last.game].players
          IN  /\ Len(m) = Len(last.pre)
              /\ SameName(m[Len(m)].name, last.player)
              /\ ~ m[Len(m)].delaying
              /\ ~ IsHeld(queues'[last.game], last.player)]_vars

\* the wait k reported for the member at zero-based index i of a queue with
\* cohort size c: k*c <= i < (k+1)*c
WaitOfMember(q, name, k) ==
    \E i \in 1..Len(q.players) :
        /\ SameName(q.players[i].name, name)
        /\ \A j \in 1..(i - 1) : ~ SameName(q.players[j].name, name)
        /\ k >= 0
        /\ k * q.player_cutoff <= i - 1
        /\ i - 1 < (k + 1) * q.player_cutoff

\* C10 as claimed: the wait command reports index \div cohort size for a
\* member and NotFound for every name that is not in members.
WaitIsIndexOverCohort ==
    [][(last'.cmd = "wait" /\ last'.game # "" /\ queues[last'.game].exists)
       => IF IsMember(queues[last'.game], last'.player)
          THEN WaitOfMember(queues[last'.game], last'.player, last'.wait)
          ELSE last'.engine = "NotFound"]_vars

\* C10 as amended: the wait command reports index \div cohort size for a
\* member, NotFound for a name that is not in members of a queue that has
\* members, and the no-queue response for a queue without members.
WaitIsIndexOverCohortOrNoQueue ==
    [][(last'.cmd = "wait" /\ last'.game # "" /\ queues[last'.game].exists)
       => /\ queues' = queues
          /\ IF IsMember(queues[last'.game], last'.player)
             THEN /\ last'.engine = "WaitEstimate"
                  /\ WaitOfMember(queues[last'.game], last'.player, last'.wait)
             ELSE IF queues[last'.game].players # <<>>
             THEN last'.engine = "NotFound"
             ELSE last'.sent = <<"NO_QUEUE_RESPONSE">> /\ last'.engine = ""]_vars

\* the second of two members, cohort size 1, is told to wait one rotation
WaitWitness ==
    /\ last.cmd = "wait"
    /\ last.engine = "WaitEstimate"
    /\ last.wait = 1
    /\ Len(queues[last.game].players) = 2
    /\ SameName(queues[last.game].players[2].name, last.player)

\* C11: the status command reports members split into current, next and
\* waiting without loss or reordering: current is the first min(cohort size,
\* length) names, next the following up to cohort size names, waiting the
\* rest; next and waiting are empty when the cohort size is not smaller than
\* the number of members.
ReportPartitionsMembers ==
    [][(last'.cmd = "status" /\ last'.game # "" /\ queues[last'.game].players # <<>>)
       => LET m == queues[last'.game].players
              n == [i \in 1..Len(m) |-> m[i].name]
              c == queues[last'.game].player_cutoff
              r == last'.report
          IN  /\ last'.engine = "GroupReport"
              /\ Len(r) = 3
              /\ r[1] \o r[2] \o r[3] = n
              /\ Len(r[1]) = Min(c, Len(n))
              /\ Len(r[2]) = Min(c, Len(n) - Len(r[1]))
              /\ c >= Len(n) => (r[2] = <<>> /\ r[3] = <<>>)]_vars

\* three members, cohort size 1: one current, one next, one waiting
ReportWitness ==
    /\ last.cmd = "status"
    /\ last.engine = "GroupReport"
    /\ Len(queues[last.game].players) = 3
    /\ last.report = << <<queues[last.game].players[1].name>>,
                        <<queues[last.game].players[2].name>>,
                        <<queues[last.game].players[3].name>> >>

\* C12: the status and wait commands leave the registry (members, holding
\* set, history of every queue) and the cohort-size store unchanged, and two
\* status commands in a row on the same queue get the same grouping.
ReadsChangeNothing ==
    [][/\ last'.cmd \in {"status", "wait"}
          => (queues' = queues /\ game_dict' = game_dict)
       /\ (/\ last.cmd = "status" /\ last'.cmd = "status"
           /\ last.game # "" /\ last'.game = last.game)
          => (/\ last'.report = last.report
              /\ last'.engine = last.engine
              /\ last'.sent = last.sent)]_vars

\* a second caller got the report the first caller got, on a queue that has
\* a held participant and a history
ReadsWitness ==
    /\ last.cmd = "status"
    /\ last.author = "Bo"
    /\ last.engine = "GroupReport"
    /\ last.report[1] # <<>>
    /\ queues[last.game].delaying # {}
    /\ queues[last.game].history # <<>>

\* C13: leave or kick for a name found in members deletes exactly that entry
\* and keeps the other members in their order.
RemoveDeletesExactlyOne ==
    [][(/\ last'.cmd \in {"leave", "kick"}
        /\ last'.game # ""
        /\ IsMember(queues[last'.game], last'.player))
       => LET m == queues[last'.game].players
          IN  /\ last'.engine = "GroupReport"
              /\ Len(queues'[last'.game].players) = Len(m) - 1
              /\ \E i \in 1..Len(m) :
                    /\ SameName(m[i].name, last'.player)
                    /\ queues'[last'.game].players =
                          SubSeq(m, 1, i - 1) \o SubSeq(m, i + 1, Len(m))]_vars

\* the middle one of three members left
RemoveWitness ==
    /\ last.cmd = "leave"
    /\ last.engine = "GroupReport"
    /\ Len(last.pre) = 3
    /\ SameName(last.pre[2].name, last.player)
    /\ queues[last.game].players = <<last.pre[1], last.pre[3]>>

\* C16: every queue of the registry that has members has a cohort size of
\* at least 1, whatever player_cutoff the callers pass and whatever the
\* cohort-size store holds.
CohortSizeAtLeastOne ==
    \A g \in DOMAIN queues :
        queues[g].players # <<>> => queues[g].player_cutoff >= 1

\* C17: a rejoin command by a participant held in the holding set of the
\* game's queue puts them at the end of members with delaying = FALSE,
\* however many members the queue has (none included).
HeldCanAlwaysRejoin ==
    [][(/\ last'.cmd = "rejoin"
        /\ last'.game # ""
        /\ IsHeld(queues[last'.game], last'.author)
        /\ ~ IsMember(queues[last'.game], last'.author))
       => LET m == queues'[last'.game].players
          IN  /\ m # <<>>
              /\ SameName(m[Len(m)].name, last'.author)
              /\ ~ m[Len(m)].delaying
              /\ ~ IsHeld(queues'[last'.game], last'.author)]_vars

\* C18: queue/join creates a queue only when the registry has none for the
\* game; a queue that exists, with or without members, is kept with its
\* history and its holding set.
ExistingQueueIsKept ==
    [][(/\ last'.cmd = "queue"
        /\ last'.game # ""
        /\ queues[last'.game].exists)
       => /\ last'.sent # <<"created">>
          /\ queues[last'.game].history # <<>> => queues'[last'.game].history # <<>>
          /\ \A p \in queues[last'.game].delaying :
                SameName(p.name, last'.author) \/ p \in queues'[last'.game].delaying]_vars

\* C19: an end or leave command naming a game the registry has no queue for
\* gets an ordinary response, raises no exception and changes nothing.
EndOrLeaveWithoutQueueIsAnswered ==
    [][(/\ last'.cmd \in {"end", "leave"}
        /\ last'.game # ""
        /\ ~ queues[last'.game].exists)
       => /\ ~ last'.raised
          /\ last'.sent # <<"command_invoke_error">>
          /\ queues' = queues
          /\ game_dict' = game_dict]_vars

\* C20: a successful switch from the caller's current game to a different
\* game gives the target queue exactly the members the current queue had, in
\* their order, leaves the current queue without members, and leaves nobody a
\* member of both queues.
SwitchTransfersMembers ==
    [][(/\ last'.cmd = "game"
        /\ last'.sent = <<"created">>
        /\ check_and_lower_game_name_param(queues, "", last'.author) # last'.game)
       => LET current_game_name == check_and_lower_game_name_param(queues, "", last'.author)
          IN  /\ queues'[last'.game].players = queues[current_game_name].players
              /\ queues'[current_game_name].players = <<>>
              /\ \A i \in 1..Len(queues'[last'.game].players) :
                    ~ IsMember(queues'[current_game_name],
                               queues'[last'.game].players[i].name)]_vars

\* two members moved, in their order, by a caller who is one of them, to a
\* queue that had a member of its own
SwitchWitness ==
    /\ last.cmd = "game"
    /\ last.sent = <<"created">>
    /\ last.game = "h"
    /\ Len(queues["h"].players) = 2
    /\ IsMember(queues["h"], last.author)
    /\ last.pre # <<>>
    /\ last.pre # queues["h"].players
    /\ queues["g"].players = <<>>
    /\ queues["g"].history # <<>>

\* both handlers have run their bodies (each is at or past its last await)
BothRan == tasks # <<>> /\ \A i \in Callers : tasks[i].stage \in {"sending", "done"}

\* the queue/join commands of two callers, received together when the game
\* had no queue, and neither refused for want of a cohort size
JoinRace ==
    /\ BothRan
    /\ \A i \in Callers :
          /\ tasks[i].cmd = "queue"
          /\ ~ tasks[i].seen.queues[Lower(tasks[i].game_name)].exists
          /\ tasks[i].sent # <<"NO_PLAYERCUTOFF_PARAM_RESPONSE">>

\* C14: when two callers issue queue/join together for a game without a
\* queue (and a cohort size is known for each command), then in every
\* interleaving exactly one of them creates the queue, the other joins that
\* queue, and both callers are members afterwards.
JoinRaceCreatesOneQueue ==
    JoinRace
    => /\ Cardinality({i \in Callers : tasks[i].sent = <<"created">>}) = 1
       /\ Cardinality({i \in Callers : tasks[i].sent = <<"engine">>}) = 1
       /\ \A i \in Callers : IsMember(queues["g"], tasks[i].author)
       /\ Len(queues["g"].players) = Cardinality({Lower(tasks[i].author) : i \in Callers})

\* two different callers, both still awaiting their send, both members
JoinRaceWitness ==
    /\ JoinRace
    /\ tasks[1].author # tasks[2].author
    /\ \A i \in Callers : tasks[i].stage = "sending"
    /\ tasks[2].sent = <<"created">>
    /\ Len(queues["g"].players) = 2

\* the commands run one after the other from the state they were received in
InOrder(first, second) ==
    LET a == Body(first, first.seen.queues, first.seen.game_dict)
        b == Body(second, a.queues, a.game_dict)
    IN  [queues |-> b.queues, game_dict |-> b.game_dict, sent |-> <<a.sent, b.sent>>]

EqualsOrder(i, j) ==
    LET s == InOrder(tasks[i], tasks[j])
    IN  /\ queues = s.queues
        /\ game_dict = s.game_dict
        /\ tasks[i].sent = s.sent[1]
        /\ tasks[j].sent = s.sent[2]

\* C15: commands on the same queue are serialized: once two concurrently
\* running handlers have both run, the registry, the store and both
\* responses are those of running one command after the other in one of the
\* two orders.
RaceEqualsSequentialOrder ==
    BothRan => (EqualsOrder(1, 2) \/ EqualsOrder(2, 1))

\* an add and a kick received on a queue with members, both suspended at
\* their send: the kick ran first and emptied the queue, the add found no
\* queue, which is the outcome of one of the two orders only
RaceWitness ==
    /\ BothRan
    /\ tasks[1].cmd = "add" /\ tasks[2].cmd = "kick"
    /\ tasks[1].seen.queues["g"].players # <<>>
    /\ \A i \in Callers : tasks[i].stage = "sending"
    /\ tasks[2].sent = <<"engine">>
    /\ tasks[1].sent = <<"NO_QUEUE_RESPONSE">>
    /\ queues["g"].players = <<>>
    /\ ~ EqualsOrder(1, 2)

\* the names a queue tracks: its members and its holding set
TrackedIn(q) ==
    {Lower(q.players[i].name) : i \in 1..Len(q.players)}
        \cup {Lower(p.name) : p \in q.delaying}

\* C21: a participant tracked by a queue stops being tracked by it only
\* through a leave or kick naming them, a rotation, or the ending or emptying
\* of that queue (a switch empties the caller's current queue); a switch to
\* a game whose queue has participants does not discard them.
TrackedUntilRemoved ==
    [][\A g \in DOMAIN queues :
          \A n \in TrackedIn(queues[g]) \ TrackedIn(queues'[g]) :
             \/ last'.cmd \in {"leave", "kick"} /\ last'.game = g /\ Lower(last'.player) = n
             \/ last'.cmd = "next" /\ last'.game = g
             \/ last'.cmd = "end" /\ last'.game = g
             \/ /\ last'.cmd = "game"
                /\ last'.sent = <<"created">>
                /\ check_and_lower_game_name_param(queues, "", last'.author) = g]_vars

\* C22: a switch command by a caller who is in no queue (neither a member
\* nor held anywhere) is answered with the not-in-a-queue response and
\* changes neither the registry nor the cohort-size store.
SwitchOutsideQueueChangesNothing ==
    [][(/\ last'.cmd = "game"
        /\ \A g \in DOMAIN queues : GQ_find_player(queues[g], last'.author) = <<>>)
       => /\ last'.sent = <<"not_in_a_queue">>
          /\ queues' = queues
          /\ game_dict' = game_dict]_vars

\* C23: an add command without a player name sends the usage message, adds
\* no participant and leaves every queue (members, holding set, history)
\* unchanged.
AddWithoutNameAddsNobody ==
    [][(last'.cmd = "add" /\ last'.player = "")
       => /\ \E i \in 1..Len(last'.sent) : last'.sent[i] = "usage"
          /\ queues' = queues
          /\ \A g \in DOMAIN queues : ~ IsMember(queues'[g], "")]_vars

\* C24: in every reachable state nobody is both a member of a queue and in
\* that queue's holding set, and every member has delaying = FALSE.
MembersAndHeldDisjoint ==
    \A g \in DOMAIN queues :
        /\ \A i \in 1..Len(queues[g].players) : ~ queues[g].players[i].delaying
        /\ \A p \in queues[g].delaying : ~ IsMember(queues[g], p.name)

\* a queue of the registry has the cohort size the store records for its game
CohortSizeIsStored ==
    \A g \in DOMAIN queues :
        queues[g].exists => game_dict[g] = <<queues[g].player_cutoff>>

\* the command constructed a queue
Constructed(l) == l.cmd \in {"queue", "game"} /\ l.sent = <<"created">>

====
